---- MODULE Spec2Model ----
\* Email-keyed user store (account/models.py) and the registration and login
\* endpoints (account/views.py).  The store is a set of rows with a primary
\* key; the unique constraint on email is checked by save, not built into the
\* representation.  A registration is two steps (validation, then save and
\* token issue) because nothing in the handler makes them atomic; every other
\* operation is one step.  Lookups by email and the unique constraint compare
\* exactly (case-sensitively), as the default SQLite backend and PostgreSQL
\* do.  created_at / updated_at are not modelled.
EXTENDS Integers, Sequences, FiniteSets, Bags, TLC

\* ---------------------------------------------------------------- bounds
\* Registrations that may be between validation and save at the same time.
MaxInflight == 2

\* ------------------------------------------------------- program constants
HTTP_200_OK == 200
HTTP_201_CREATED == 201
HTTP_400_BAD_REQUEST == 400
HTTP_404_NOT_FOUND == 404

\* ----------------------------------------------------------------- inputs
\* An email is a sequence of characters; <<>> is the empty/absent email.
NoEmail == <<>>
EmailInputs ==
  { NoEmail, <<"a", "@", "x">>, <<"a", "@", "X">>, <<"b", "@", "x">> }
\* password=None
None == "None"
Passwords == {"p", "q"}
Names == {"n"}
Perms == {"account.view_user"}
AppLabels == {"account"}

\* ------------------------------------------------------------------ state
VARIABLES
  users,     \* the rows of the user table
  inflight,  \* bag of validated registration data waiting for save
  resp       \* outcome of the operation that ended last, NoResp once delivered

vars == <<users, inflight, resp>>

NoReq == [email |-> NoEmail, name |-> "", tc |-> FALSE, password |-> None,
          password2 |-> None]

NoToken == [refresh |-> "", access |-> ""]

NoResp == [op |-> "none", status |-> 0, exc |-> "none", keys |-> {},
           msg |-> "", token |-> NoToken, req |-> NoReq, uid |-> 0,
           answer |-> <<FALSE, FALSE, FALSE>>]

\* --------------------------------------------------- library conversions
\* str.lower() on the characters the inputs use.
Lower(c) == CASE c = "X" -> "x" [] c = "A" -> "a" [] c = "B" -> "b" [] OTHER -> c

\* Position of the last "@" (rsplit("@", 1)), 0 when there is none.
LastAt(email) ==
  LET at == { i \in 1..Len(email) : email[i] = "@" }
  IN IF at = {} THEN 0 ELSE CHOOSE i \in at : \A j \in at : j <= i

\* BaseUserManager.normalize_email: lowercase the domain part only.
normalize_email(email) ==
  IF LastAt(email) = 0 THEN email
  ELSE [ i \in 1..Len(email) |->
           IF i > LastAt(email) THEN Lower(email[i]) ELSE email[i] ]

\* make_password: a hash of the raw password (salt left out), or an unusable
\* value for None (its random suffix left out).
UNUSABLE_PASSWORD == "!"
make_password(password) ==
  IF password = None THEN UNUSABLE_PASSWORD ELSE "pbkdf2_sha256$" \o password

is_password_usable(encoded) == encoded # UNUSABLE_PASSWORD

check_password(password, encoded) ==
  /\ password # None
  /\ is_password_usable(encoded)
  /\ encoded = make_password(password)

\* Mutant: the raw password is stored.
set_password_raw(user, password) ==
  [user EXCEPT !.password = password]

\* AbstractBaseUser.set_password as create_user uses it.
set_password(user, password) ==
  [user EXCEPT !.password = make_password(password)]

\* ------------------------------------------------------------- user model
\* User(email=..., name=..., tc=...): the field defaults of the model.
NewUser(id, email, name, tc) ==
  [id |-> id, email |-> email, name |-> name, tc |-> tc,
   is_active |-> TRUE, is_admin |-> FALSE, password |-> UNUSABLE_PASSWORD]

NoUser == NewUser(0, NoEmail, "", FALSE)

NextId(us) == Cardinality(us) + 1

\* Mutant: the email column without unique=True.
UniqueViolation_off(us, user) == FALSE

\* unique=True on email: another row already holds this email.
UniqueViolation(us, user) ==
  \E v \in us : v.email = user.email /\ v.id # user.id

\* user.save(): insert, or update of the row with the same primary key.
save(us, user) == { v \in us : v.id # user.id } \cup {user}

\* Mutant: "Yes, always".
has_perm_always(user, perm) == TRUE

has_perm(user, perm) == user.is_admin

has_module_perms(user, app_label) == TRUE

is_staff(user) == user.is_admin

\* ---------------------------------------------------------------- manager
\* Result of a manager call: the exception raised ("none" when it returns),
\* the table afterwards and the returned user.
\* Mutant: the missing-email guard left out.
create_user_unguarded(us, email, name, tc, password) ==
  LET user == set_password(
                NewUser(NextId(us), normalize_email(email), name, tc), password)
  IN IF UniqueViolation(us, user)
     THEN [exc |-> "IntegrityError", users |-> us, user |-> NoUser]
     ELSE [exc |-> "none", users |-> save(us, user), user |-> user]

create_user(us, email, name, tc, password) ==
  IF email = NoEmail
  THEN [exc |-> "ValueError", users |-> us, user |-> NoUser]
  ELSE LET user == set_password(
                     NewUser(NextId(us), normalize_email(email), name, tc),
                     password)
       IN IF UniqueViolation(us, user)
          THEN [exc |-> "IntegrityError", users |-> us, user |-> NoUser]
          ELSE [exc |-> "none", users |-> save(us, user), user |-> user]

\* Mutant: is_admin set on the returned object but not saved again.
create_superuser_unsaved(us, email, name, tc, password) ==
  LET r == create_user(us, email, name, tc, password)
  IN IF r.exc # "none" THEN r
     ELSE [r EXCEPT !.user = [r.user EXCEPT !.is_admin = TRUE]]

create_superuser(us, email, name, tc, password) ==
  LET r == create_user(us, email, name, tc, password)
  IN IF r.exc # "none" THEN r
     ELSE LET user == [r.user EXCEPT !.is_admin = TRUE]
          IN [exc |-> "none", users |-> save(r.users, user), user |-> user]

\* ------------------------------------------------------------ serializers
\* UserRegistrationSerializer.is_valid: the fields in error.  Required fields,
\* a well-formed email, password confirmation, and the unique validator a
\* model serializer derives from unique=True (an exact lookup of the
\* submitted value).
RegistrationErrors(us, data) ==
     { f \in {"email"} :
         \/ data.email = NoEmail
         \/ LastAt(data.email) = 0
         \/ \E v \in us : v.email = data.email }
  \cup { f \in {"password"} : data.password = None }
  \cup { f \in {"non_field_errors"} :
           data.password # None /\ data.password # data.password2 }

\* UserLoginSerializer.is_valid: the fields in error.
LoginErrors(data) ==
     { f \in {"email"} : data.email = NoEmail \/ LastAt(data.email) = 0 }
  \cup { f \in {"password"} : data.password = None }

\* ------------------------------------------------------------------ views
Response(op, status, keys, msg, token, req, uid) ==
  [op |-> op, status |-> status, exc |-> "none", keys |-> keys, msg |-> msg,
   token |-> token, req |-> req, uid |-> uid,
   answer |-> <<FALSE, FALSE, FALSE>>]

\* The framework's answer to a ValidationError raised by
\* is_valid(raise_exception=True).
ValidationFailure(op, errors, req) ==
  [Response(op, HTTP_400_BAD_REQUEST, errors, "", NoToken, req, 0)
     EXCEPT !.exc = "ValidationError"]

\* An exception the handler and the framework's handler do not catch: no
\* structured response, a server error.
Unhandled(op, exc, req) ==
  [Response(op, 500, {}, "", NoToken, req, 0) EXCEPT !.exc = exc]

\* Mutant: is_active is not consulted.
authenticate_inactive(us, email, password) ==
  LET found == { v \in us : v.email = email }
  IN IF found = {} THEN NoUser
     ELSE LET user == CHOOSE v \in found : TRUE
          IN IF check_password(password, user.password)
             THEN user ELSE NoUser

\* django.contrib.auth.authenticate(email=, password=): the row with exactly
\* this email, if its password checks and it is active; NoUser for None.
authenticate(us, email, password) ==
  LET found == { v \in us : v.email = email }
  IN IF found = {} THEN NoUser
     ELSE LET user == CHOOSE v \in found : TRUE
          IN IF check_password(password, user.password) /\ user.is_active
             THEN user ELSE NoUser

get_tokens_for_user(user) ==
  [refresh |-> "refresh." \o ToString(user.id),
   access |-> "access." \o ToString(user.id)]

\* UserRegistrationView.post after is_valid: serializer.save() calls
\* create_user(**validated_data), then the token pair and the 201.
\* Result: the table afterwards and the response.
UserRegistrationView_save(us, data) ==
  LET r == create_user(us, data.email, data.name, data.tc, data.password)
  IN IF r.exc # "none"
     THEN [users |-> us, resp |-> Unhandled("register", r.exc, data)]
     ELSE [users |-> r.users,
           resp |-> Response("register", HTTP_201_CREATED, {"token", "msg"},
                             "Registration successful",
                             get_tokens_for_user(r.user), data, r.user.id)]

\* Mutant: login answers with a token pair, as registration does.
UserLoginView_post_token(us, data) ==
  LET user == authenticate(us, data.email, data.password)
  IN IF LoginErrors(data) # {}
     THEN [users |-> us,
           resp |-> ValidationFailure("login", LoginErrors(data), data)]
     ELSE IF user # NoUser
     THEN [users |-> us,
           resp |-> Response("login", HTTP_200_OK, {"token", "msg"},
                             "Login Success", get_tokens_for_user(user), data,
                             user.id)]
     ELSE [users |-> us,
           resp |-> Response("login", HTTP_404_NOT_FOUND,
                             {"errors.non_field_errors"},
                             "Email or Password is not Valid", NoToken, data, 0)]

\* Mutant: a failed attempt on an existing account locks it.
UserLoginView_post_lock(us, data) ==
  LET user == authenticate(us, data.email, data.password)
      found == { v \in us : v.email = data.email }
  IN IF LoginErrors(data) # {}
     THEN [users |-> us,
           resp |-> ValidationFailure("login", LoginErrors(data), data)]
     ELSE IF user # NoUser
     THEN [users |-> us,
           resp |-> Response("login", HTTP_200_OK, {"msg"}, "Login Success",
                             NoToken, data, user.id)]
     ELSE [users |-> (us \ found)
                       \cup { [v EXCEPT !.is_active = FALSE] : v \in found },
           resp |-> Response("login", HTTP_404_NOT_FOUND,
                             {"errors.non_field_errors"},
                             "Email or Password is not Valid", NoToken, data, 0)]

\* UserLoginView.post.  Result: the table afterwards and the response.
UserLoginView_post(us, data) ==
  IF LoginErrors(data) # {}
  THEN [users |-> us,
        resp |-> ValidationFailure("login", LoginErrors(data), data)]
  ELSE LET user == authenticate(us, data.email, data.password)
       IN IF user # NoUser
          THEN [users |-> us,
                resp |-> Response("login", HTTP_200_OK, {"msg"},
                                  "Login Success", NoToken, data, user.id)]
          ELSE [users |-> us,
                resp |-> Response("login", HTTP_404_NOT_FOUND,
                                  {"errors.non_field_errors"},
                                  "Email or Password is not Valid", NoToken,
                                  data, 0)]

\* ---------------------------------------------------------------- actions
Init ==
  /\ users = {}
  /\ inflight = EmptyBag
  /\ resp = NoResp

RegisterInputs ==
  [email : EmailInputs, name : Names, tc : {TRUE}, password : {None, "p"},
   password2 : Passwords]

LoginInputs ==
  [email : EmailInputs, name : {""}, tc : {FALSE},
   password : Passwords \cup {None}, password2 : {None}]

ManagerInputs ==
  [email : EmailInputs, name : Names, tc : BOOLEAN, password : {None, "p"},
   password2 : {None}]

\* UserRegistrationView.post up to is_valid(raise_exception=True).
RegisterValidate(data) ==
  /\ resp = NoResp
  /\ BagCardinality(inflight) < MaxInflight
  /\ IF RegistrationErrors(users, data) # {}
     THEN /\ resp' = ValidationFailure("register",
                                       RegistrationErrors(users, data), data)
          /\ UNCHANGED inflight
     ELSE /\ inflight' = inflight (+) SetToBag({data})
          /\ UNCHANGED resp
  /\ UNCHANGED users

\* UserRegistrationView.post from serializer.save() on.
RegisterSave(data) ==
  /\ resp = NoResp
  /\ BagIn(data, inflight)
  /\ LET r == UserRegistrationView_save(users, data)
     IN /\ users' = r.users
        /\ resp' = r.resp
  /\ inflight' = inflight (-) SetToBag({data})

Login(data) ==
  /\ resp = NoResp
  /\ LET r == UserLoginView_post(users, data)
     IN /\ users' = r.users
        /\ resp' = r.resp
  /\ UNCHANGED inflight

\* A direct call of the manager (a shell, the createsuperuser command).
ManagerResult(op, r, data) ==
  [Response(op, 0, {}, "", NoToken, data, r.user.id) EXCEPT !.exc = r.exc]

CreateUser(data) ==
  /\ resp = NoResp
  /\ LET r == create_user(users, data.email, data.name, data.tc, data.password)
     IN /\ users' = r.users
        /\ resp' = ManagerResult("create_user", r, data)
  /\ UNCHANGED inflight

CreateSuperuser(data) ==
  /\ resp = NoResp
  /\ LET r == create_superuser(users, data.email, data.name, data.tc,
                               data.password)
     IN /\ users' = r.users
        /\ resp' = ManagerResult("create_superuser", r, data)
  /\ UNCHANGED inflight

\* Administrative code assigns is_active or is_admin of a stored user and
\* saves it.
AdminAssign(u, field, value) ==
  /\ resp = NoResp
  /\ u \in users
  /\ users' = save(users, IF field = "is_admin"
                          THEN [u EXCEPT !.is_admin = value]
                          ELSE [u EXCEPT !.is_active = value])
  /\ resp' = Response("admin_assign", 0, {field}, "", NoToken, NoReq, u.id)
  /\ UNCHANGED inflight

\* The permission queries on a stored user.
PermQuery(u, perm, app_label) ==
  /\ resp = NoResp
  /\ u \in users
  /\ resp' = [Response("perm", 0, {}, "", NoToken, NoReq, u.id)
                EXCEPT !.answer = <<has_perm(u, perm),
                                    has_module_perms(u, app_label),
                                    is_staff(u)>>]
  /\ UNCHANGED <<users, inflight>>

\* The outcome is handed to the client or caller.
Deliver ==
  /\ resp # NoResp
  /\ resp' = NoResp
  /\ UNCHANGED <<users, inflight>>

Next ==
  \/ \E data \in RegisterInputs : RegisterValidate(data)
  \/ \E data \in RegisterInputs : RegisterSave(data)
  \/ \E data \in LoginInputs : Login(data)
  \/ \E data \in ManagerInputs : CreateUser(data)
  \/ \E data \in ManagerInputs : CreateSuperuser(data)
  \/ \E u \in users, field \in {"is_active", "is_admin"}, value \in BOOLEAN :
       AdminAssign(u, field, value)
  \/ \E u \in users, perm \in Perms, app_label \in AppLabels :
       PermQuery(u, perm, app_label)
  \/ Deliver

Spec == Init /\ [][Next]_vars

\* ----------------------------------------------------------------- claims
\* User.objects.filter(email=e): an exact lookup.
Lookup(e) == { v \in users : v.email = e }

\* The row with primary key id (NoUser when there is none).
Row(id) == IF \E v \in users : v.id = id
           THEN CHOOSE v \in users : v.id = id ELSE NoUser

\* An operation ended in this step.
Ends(op) == resp = NoResp /\ resp'.op = op

\* The payload has every field, a well-formed email and matching passwords.
WellFormedRegistration(data) ==
  /\ data.email # NoEmail
  /\ LastAt(data.email) > 0
  /\ data.password # None
  /\ data.password = data.password2

\* The table a registration that just ended saw when it saved.
UsersBeforeRegistration ==
  IF resp.status = HTTP_201_CREATED
  THEN { v \in users : v.id # resp.uid } ELSE users

\* C1: a registration with a valid payload whose email is not in the user
\* store is answered 201 with a token whose refresh and access are non-empty,
\* and a lookup of the store by that same email then succeeds.
C1_RegistrationCreates ==
  ( /\ resp.op = "register"
    /\ WellFormedRegistration(resp.req)
    /\ \A v \in UsersBeforeRegistration : v.email # resp.req.email )
  => ( /\ resp.status = HTTP_201_CREATED
       /\ resp.token.refresh # ""
       /\ resp.token.access # ""
       /\ Lookup(resp.req.email) # {} )

\* C2: no two rows share an email in any reachable state, and a registration
\* whose (normalized) email already belongs to a row ends without a 201 and
\* leaves the table as it was.
C2_NoDuplicateEmail ==
  /\ [](\A u, v \in users : u.email = v.email => u = v)
  /\ [][ ( /\ Ends("register")
           /\ Lookup(normalize_email(resp'.req.email)) # {} )
         => ( users' = users /\ resp'.status # HTTP_201_CREATED ) ]_vars

C2_Witness ==
  /\ resp.op = "register"
  /\ resp.exc = "IntegrityError"
  /\ Lookup(normalize_email(resp.req.email)) # {}

\* C3: create_user and create_superuser called with an empty email raise the
\* validation error and leave the table unchanged.
C3_EmptyEmailRejected ==
  [][ ( /\ \/ Ends("create_user")
           \/ Ends("create_superuser")
        /\ resp'.req.email = NoEmail )
      => ( resp'.exc = "ValueError" /\ users' = users ) ]_vars

C3_Witness ==
  /\ resp.op = "create_superuser"
  /\ resp.req.email = NoEmail
  /\ resp.exc = "ValueError"
  /\ users # {}

CorrectCredentials(v, data) ==
  /\ v.email = data.email
  /\ v.is_active
  /\ data.password \in Passwords
  /\ v.password = make_password(data.password)

\* C5: a login with the email and password of a stored active user is
\* answered 200 "Login Success", and the response carries no token.
C5_LoginSuccess ==
  ( resp.op = "login" /\ \E v \in users : CorrectCredentials(v, resp.req) )
  => ( /\ resp.status = HTTP_200_OK
       /\ resp.msg = "Login Success"
       /\ resp.keys = {"msg"}
       /\ resp.token = NoToken )

C5_Witness ==
  /\ resp.op = "login"
  /\ \E v \in users : CorrectCredentials(v, resp.req)
  /\ resp.status = HTTP_200_OK

\* C6: a well-formed login that matches no active stored user (wrong
\* password, unknown email, inactive user) is answered 404 with
\* {errors: {non_field_errors: ["Email or Password is not Valid"]}}.
C6_LoginFailure ==
  ( /\ resp.op = "login"
    /\ LoginErrors(resp.req) = {}
    /\ ~ \E v \in users : CorrectCredentials(v, resp.req) )
  => ( /\ resp.status = HTTP_404_NOT_FOUND
       /\ resp.keys = {"errors.non_field_errors"}
       /\ resp.msg = "Email or Password is not Valid" )

C6_Witness ==
  /\ resp.op = "login"
  /\ resp.status = HTTP_404_NOT_FOUND
  /\ \E v \in users :
       /\ v.email = resp.req.email
       /\ v.password = make_password(resp.req.password)
       /\ ~v.is_active

\* C7: no login, successful or failed, changes the table, and the same login
\* made again gets the same answer (200 again for correct credentials).
C7_LoginReadOnly ==
  [][ Ends("login")
      => ( /\ users' = users
           /\ UserLoginView_post(users', resp'.req).resp = resp' ) ]_vars

C7_Witness ==
  /\ resp.op = "login"
  /\ resp.status = HTTP_200_OK
  /\ Cardinality(users) = 2

\* The operations that create a row.
Creations == {"create_user", "create_superuser", "register"}

\* C8: no row ever holds a plaintext password; the row a creation returns
\* verifies against the password given and differs from it, or, when the
\* password was omitted, verifies against no password; and omitting the
\* password is never what makes create_user fail.
C8_PasswordHashed ==
  /\ \A v \in users : v.password \notin Passwords \cup {None}
  /\ ( resp.op \in Creations /\ resp.uid # 0 )
     => IF resp.req.password = None
        THEN \A p \in Passwords : ~check_password(p, Row(resp.uid).password)
        ELSE /\ check_password(resp.req.password, Row(resp.uid).password)
             /\ Row(resp.uid).password # resp.req.password
  /\ ( resp.op = "create_user" /\ resp.uid = 0 )
     => \/ resp.exc = "ValueError" /\ resp.req.email = NoEmail
        \/ /\ resp.exc = "IntegrityError"
           /\ Lookup(normalize_email(resp.req.email)) # {}

C8_Witness ==
  /\ resp.op = "create_user"
  /\ resp.req.password = None
  /\ resp.uid # 0
  /\ Row(resp.uid).password = UNUSABLE_PASSWORD
  /\ \E v \in users : v.password = make_password("p")

\* C9: every registration and login ends in a structured response of the
\* handler, never in an unhandled error, and a registration whose email is
\* taken (a lost race included) is answered 400.
C9_AlwaysStructured ==
  resp.op \in {"register", "login"}
  => /\ resp.status \in {HTTP_200_OK, HTTP_201_CREATED,
                         HTTP_400_BAD_REQUEST, HTTP_404_NOT_FOUND}
     /\ resp.exc \in {"none", "ValidationError"}
     /\ ( /\ resp.op = "register"
          /\ resp.status # HTTP_201_CREATED
          /\ Lookup(normalize_email(resp.req.email)) # {} )
        => resp.status = HTTP_400_BAD_REQUEST

\* The row create_user makes from data under primary key id.
CreatedRow(data, id) ==
  [id |-> id, email |-> normalize_email(data.email), name |-> data.name,
   tc |-> data.tc, is_active |-> TRUE, is_admin |-> FALSE,
   password |-> make_password(data.password)]

\* The table us holds row id with the admin flag set.
IsAdmin(us, id) == \E v \in us : v.id = id /\ v.is_admin

\* C10: when create_superuser returns, its user is the row create_user would
\* have made with the admin flag true, and it fails exactly as create_user
\* fails; a user returned by create_user or by registration is a stored row
\* with admin false and is_active true; and a row's admin flag turns true
\* only in create_superuser or an administrative assignment.
C10_AdminOnlyBySuperuser ==
  /\ [] /\ ( resp.op = "create_superuser" /\ resp.exc = "none" )
           => /\ resp.uid # 0
              /\ Row(resp.uid)
                   = [CreatedRow(resp.req, resp.uid) EXCEPT !.is_admin = TRUE]
        /\ ( resp.op = "create_superuser" /\ resp.exc # "none" )
           => /\ users = create_user(users, resp.req.email, resp.req.name,
                                     resp.req.tc, resp.req.password).users
              /\ resp.exc = create_user(users, resp.req.email, resp.req.name,
                                        resp.req.tc, resp.req.password).exc
        /\ ( \/ resp.op = "create_user" /\ resp.exc = "none"
             \/ resp.op = "register" /\ resp.status = HTTP_201_CREATED )
           => /\ resp.uid # 0
              /\ Row(resp.uid) = CreatedRow(resp.req, resp.uid)
  /\ [][ \A v \in users' :
           ( v.is_admin /\ ~IsAdmin(users, v.id) )
           => resp'.op \in {"create_superuser", "admin_assign"} ]_vars

C10_Witness ==
  /\ resp.op = "create_superuser"
  /\ resp.exc = "none"
  /\ Row(resp.uid).is_admin
  /\ \E v \in users : v.id # resp.uid /\ ~v.is_admin

====
